---- MODULE Spec2Model ----
(***************************************************************************)
(* Restaurant table booking: Table, Booking and Restaurant of models.py.   *)
(*                                                                         *)
(* Python objects live in two heaps.  A Table object is a record of        *)
(* tableObjs and is referred to by its index (its address); a Booking      *)
(* object is a record of bookings (Restaurant._bookings, which holds every *)
(* Booking ever constructed successfully) and is referred to by its index. *)
(* Object identity (the default == of both classes) is equality of         *)
(* addresses.  Strings are sequences of one-character strings, datetimes   *)
(* are integers on one time axis, datetime.now() is the variable now.      *)
(***************************************************************************)
EXTENDS Integers, Sequences, FiniteSets

VARIABLES
    tableObjs,        \* every Table object ever constructed
    tables,           \* Restaurant._tables: addresses of Table objects
    bookings,         \* Restaurant._bookings: the Booking objects
    next_table_id,    \* Restaurant._next_table_id
    next_booking_id,  \* Restaurant._next_booking_id
    now,              \* the clock read by datetime.now()
    call,             \* the last call made: operation, arguments, outcome
    threads,          \* create_booking calls in progress: position and locals
    raced             \* whether a call ran a step while another was in progress

vars == <<tableObjs, tables, bookings, next_table_id, next_booking_id, now, call,
          threads, raced>>

\* ---------------------------------------------------------------- bounds

\* Table objects constructed in one behaviour.
MaxTables == 2
\* Booking objects constructed in one behaviour.
MaxBookings == 2
\* Datetimes offered to the operations are 0 .. MaxTime.
MaxTime == 3
\* The clock runs from 0 to MaxNow.
MaxNow == 1

\* The same two counts where every argument of a call is recorded (SpecCalls).
MaxTablesC == 1
MaxBookingsC == 2
\* The same two counts where the Table methods are also called directly
\* (SpecTable).
MaxTablesT == 1
MaxBookingsT == 2

\* The same two counts for the table collection on its own (SpecFloor).
MaxTablesF == 3
MaxBookingsF == 1
\* Callers of create_booking running at the same time, one call each.
NThreads == 2

\* Python's None, for an optional object reference (addresses start at 1).
None == 0

Times == 0 .. MaxTime

\* ---------------------------------------------------------------- strings

RECURSIVE lstrip(_)
lstrip(s) == IF s # <<>> /\ Head(s) = " " THEN lstrip(Tail(s)) ELSE s

RECURSIVE rstrip(_)
rstrip(s) ==
    IF s # <<>> /\ s[Len(s)] = " " THEN rstrip(SubSeq(s, 1, Len(s) - 1)) ELSE s

\* str.strip()
strip(s) == rstrip(lstrip(s))

\* `not value or not value.strip()` of the name, guest name and phone setters
is_blank(value) == value = <<>> \/ strip(value) = <<>>

\* ---------------------------------------------------------------- Table

\* Table.__init__: the fields are assigned as given, no setter is used.
Table_init(table_id, name, seats) ==
    [table_id |-> table_id, name |-> name, seats |-> seats,
     is_occupied |-> FALSE, current_booking |-> None]

\* Table.occupy(booking): booking is a Booking address or None.
Table_occupy(t, booking) ==
    [t EXCEPT !.is_occupied = TRUE, !.current_booking = booking]

\* A release that forgets to clear the booking reference.
Table_release_keeps_booking(t) == [t EXCEPT !.is_occupied = FALSE]

\* Table.release()
Table_release(t) ==
    [t EXCEPT !.is_occupied = FALSE, !.current_booking = None]

\* Table.name setter: err is the ValueError's message, "" when assigned.
Table_set_name(t, value) ==
    IF is_blank(value) THEN [err |-> "Table name cannot be empty", obj |-> t]
    ELSE [err |-> "", obj |-> [t EXCEPT !.name = strip(value)]]

\* A seats setter that refuses negative values only.
Table_set_seats_allows_zero(t, value) ==
    IF value < 0 THEN [err |-> "Number of seats must be positive", obj |-> t]
    ELSE [err |-> "", obj |-> [t EXCEPT !.seats = value]]

\* Table.seats setter
Table_set_seats(t, value) ==
    IF value <= 0 THEN [err |-> "Number of seats must be positive", obj |-> t]
    ELSE [err |-> "", obj |-> [t EXCEPT !.seats = value]]

\* ---------------------------------------------------------------- Booking

\* A constructor that sets the phone before the guest name.
Booking_init_phone_first(booking_id, guest_name, phone, table, start_time, end_time, clock) ==
    LET obj == [booking_id |-> booking_id, guest_name |-> strip(guest_name),
                phone |-> strip(phone), table |-> table,
                start_time |-> start_time, end_time |-> end_time,
                is_active |-> TRUE]
        err == IF is_blank(phone) THEN "Phone cannot be empty"
               ELSE IF is_blank(guest_name) THEN "Guest name cannot be empty"
               ELSE IF start_time < clock THEN "Start time cannot be in the past"
               ELSE IF end_time <= start_time THEN "End time must be after start time"
               ELSE ""
    IN  [err |-> err, obj |-> obj]

\* A constructor whose end_time setter accepts an end equal to the start.
Booking_init_end_not_before(booking_id, guest_name, phone, table, start_time, end_time, clock) ==
    LET obj == [booking_id |-> booking_id, guest_name |-> strip(guest_name),
                phone |-> strip(phone), table |-> table,
                start_time |-> start_time, end_time |-> end_time,
                is_active |-> TRUE]
        err == IF is_blank(guest_name) THEN "Guest name cannot be empty"
               ELSE IF is_blank(phone) THEN "Phone cannot be empty"
               ELSE IF start_time < clock THEN "Start time cannot be in the past"
               ELSE IF end_time < start_time THEN "End time must be after start time"
               ELSE ""
    IN  [err |-> err, obj |-> obj]

\* Booking.__init__: the four setters run in the order guest_name, phone,
\* start_time, end_time; the first one that raises ends the construction.
\* err is the ValueError's message, "" when the object is constructed.
Booking_init(booking_id, guest_name, phone, table, start_time, end_time, clock) ==
    LET obj == [booking_id |-> booking_id, guest_name |-> strip(guest_name),
                phone |-> strip(phone), table |-> table,
                start_time |-> start_time, end_time |-> end_time,
                is_active |-> TRUE]
        err == IF is_blank(guest_name) THEN "Guest name cannot be empty"
               ELSE IF is_blank(phone) THEN "Phone cannot be empty"
               ELSE IF start_time < clock THEN "Start time cannot be in the past"
               ELSE IF end_time <= start_time THEN "End time must be after start time"
               ELSE ""
    IN  [err |-> err, obj |-> obj]

\* ---------------------------------------------------------------- Restaurant

\* The part of the state the Restaurant's methods read and write.
State ==
    [tableObjs |-> tableObjs, tables |-> tables, bookings |-> bookings,
     next_table_id |-> next_table_id, next_booking_id |-> next_booking_id]

\* What a method does: the state it leaves, what it returns (ret: "Table",
\* "Booking", "None", "True", "False" or "ValueError"), the address of the
\* object returned (obj) and the exception's message (err).
Outcome(st, ret, obj, err) == [st |-> st, ret |-> ret, obj |-> obj, err |-> err]

\* Restaurant.bookings that also lists the cancelled bookings.
active_bookings_all == [i \in 1 .. Len(bookings) |-> i]

\* Restaurant.bookings (property): the addresses of the active bookings, in
\* the order of _bookings.
active_bookings ==
    LET F[i \in 0 .. Len(bookings)] ==
            IF i = 0 THEN <<>>
            ELSE IF bookings[i].is_active THEN Append(F[i - 1], i) ELSE F[i - 1]
    IN  F[Len(bookings)]

\* Restaurant.find_table_by_id: the first table of _tables with that id.
find_table_by_id(table_id) ==
    LET hits == {i \in 1 .. Len(tables) : tableObjs[tables[i]].table_id = table_id}
    IN  IF hits = {} THEN None
        ELSE tables[CHOOSE i \in hits : \A j \in hits : i <= j]

\* An overlap test that also counts intervals that only touch.
conflicts_closed(b, start_time, end_time) ==
    ~(end_time < bookings[b].start_time \/ start_time > bookings[b].end_time)

\* The interval test of _is_table_occupied, line 252.
conflicts(b, start_time, end_time) ==
    ~(end_time <= bookings[b].start_time \/ start_time >= bookings[b].end_time)

\* An availability check that reads only the occupied flag.
is_table_occupied_flag_only(table, start_time, end_time) ==
    tableObjs[table].is_occupied

\* An availability check that scans every booking, cancelled ones too.
is_table_occupied_any_booking(table, start_time, end_time) ==
    IF \E b \in 1 .. Len(bookings) :
          bookings[b].table = table /\ conflicts(b, start_time, end_time)
    THEN TRUE
    ELSE tableObjs[table].is_occupied

\* An availability check that does not compare the booking's table.
is_table_occupied_any_table(table, start_time, end_time) ==
    IF \E k \in 1 .. Len(active_bookings) :
          LET b == active_bookings[k]
          IN  bookings[b].is_active /\ conflicts(b, start_time, end_time)
    THEN TRUE
    ELSE tableObjs[table].is_occupied

\* Restaurant._is_table_occupied(table, start_time, end_time)
is_table_occupied(table, start_time, end_time) ==
    IF \E k \in 1 .. Len(active_bookings) :
          LET b == active_bookings[k]
          IN  /\ bookings[b].table = table
              /\ bookings[b].is_active
              /\ conflicts(b, start_time, end_time)
    THEN TRUE
    ELSE tableObjs[table].is_occupied

\* list.remove(x): the sequence without the first element equal to x.
remove(seq, x) ==
    LET i == CHOOSE k \in 1 .. Len(seq) :
                 seq[k] = x /\ \A j \in 1 .. k - 1 : seq[j] # x
    IN  SubSeq(seq, 1, i - 1) \o SubSeq(seq, i + 1, Len(seq))

\* An add_table that hands out an id without advancing the counter.
add_table_same_id(name, seats) ==
    LET addr == Len(tableObjs) + 1
    IN  Outcome([State EXCEPT
                    !.tableObjs = Append(@, Table_init(next_table_id, name, seats)),
                    !.tables = Append(@, addr)],
                "Table", addr, "")

\* Restaurant.add_table(name, seats)
add_table(name, seats) ==
    LET addr == Len(tableObjs) + 1
    IN  Outcome([State EXCEPT
                    !.tableObjs = Append(@, Table_init(next_table_id, name, seats)),
                    !.tables = Append(@, addr),
                    !.next_table_id = @ + 1],
                "Table", addr, "")

\* A remove_table that does not look at the occupied flag.
remove_table_unchecked(table_id) ==
    LET table == find_table_by_id(table_id)
    IN  IF table # None
        THEN Outcome([State EXCEPT !.tables = remove(@, table)], "True", None, "")
        ELSE Outcome(State, "False", None, "")

\* Restaurant.remove_table(table_id)
remove_table(table_id) ==
    LET table == find_table_by_id(table_id)
    IN  IF table # None /\ ~tableObjs[table].is_occupied
        THEN Outcome([State EXCEPT !.tables = remove(@, table)], "True", None, "")
        ELSE Outcome(State, "False", None, "")

\* A create_booking that also marks the booked table occupied by the booking.
create_booking_occupies(guest_name, phone, table_id, start_time, end_time) ==
    LET table == find_table_by_id(table_id)
        made  == Booking_init(next_booking_id, guest_name, phone, table,
                              start_time, end_time, now)
    IN  IF table = None THEN Outcome(State, "None", None, "")
        ELSE IF is_table_occupied(table, start_time, end_time)
        THEN Outcome(State, "None", None, "")
        ELSE IF made.err # "" THEN Outcome(State, "ValueError", None, made.err)
        ELSE Outcome([State EXCEPT
                        !.bookings = Append(@, made.obj),
                        !.next_booking_id = @ + 1,
                        !.tableObjs[table] = Table_occupy(@, Len(bookings) + 1)],
                     "Booking", Len(bookings) + 1, "")

\* A create_booking that constructs (and so validates) the Booking before it
\* looks the table up and checks its availability.
create_booking_validate_first(guest_name, phone, table_id, start_time, end_time) ==
    LET table == find_table_by_id(table_id)
        made  == Booking_init(next_booking_id, guest_name, phone, table,
                              start_time, end_time, now)
    IN  IF made.err # "" THEN Outcome(State, "ValueError", None, made.err)
        ELSE IF table = None THEN Outcome(State, "None", None, "")
        ELSE IF is_table_occupied(table, start_time, end_time)
        THEN Outcome(State, "None", None, "")
        ELSE Outcome([State EXCEPT !.bookings = Append(@, made.obj),
                                   !.next_booking_id = @ + 1],
                     "Booking", Len(bookings) + 1, "")

\* Restaurant.create_booking(guest_name, phone, table_id, start_time, end_time)
create_booking(guest_name, phone, table_id, start_time, end_time) ==
    LET table == find_table_by_id(table_id)
        made  == Booking_init(next_booking_id, guest_name, phone, table,
                              start_time, end_time, now)
    IN  IF table = None THEN Outcome(State, "None", None, "")
        ELSE IF is_table_occupied(table, start_time, end_time)
        THEN Outcome(State, "None", None, "")
        ELSE IF made.err # "" THEN Outcome(State, "ValueError", None, made.err)
        ELSE Outcome([State EXCEPT !.bookings = Append(@, made.obj),
                                   !.next_booking_id = @ + 1],
                     "Booking", Len(bookings) + 1, "")

\* A cancel that releases the booking's table whatever it is occupied by.
Booking_cancel_always_releases(b) ==
    [State EXCEPT
        !.bookings = [@ EXCEPT ![b].is_active = FALSE],
        !.tableObjs = [@ EXCEPT ![bookings[b].table] = Table_release(@)]]

\* Booking.cancel() of the booking at address b: the state it leaves.
Booking_cancel(b) ==
    LET table == bookings[b].table
    IN  [State EXCEPT
            !.bookings = [@ EXCEPT ![b].is_active = FALSE],
            !.tableObjs = IF tableObjs[table].current_booking = b
                          THEN [@ EXCEPT ![table] = Table_release(@)]
                          ELSE @]

\* The `next(...)` of cancel_booking: the first booking of _bookings with
\* that id, cancelled or not.
find_booking_by_id(booking_id) ==
    LET hits == {i \in 1 .. Len(bookings) : bookings[i].booking_id = booking_id}
    IN  IF hits = {} THEN None ELSE CHOOSE i \in hits : \A j \in hits : i <= j

\* A cancel_booking that does not look at the active flag.
cancel_booking_unchecked(booking_id) ==
    LET b == find_booking_by_id(booking_id)
    IN  IF b # None
        THEN Outcome(Booking_cancel(b), "True", None, "")
        ELSE Outcome(State, "False", None, "")

\* Restaurant.cancel_booking(booking_id)
cancel_booking(booking_id) ==
    LET b == find_booking_by_id(booking_id)
    IN  IF b # None /\ bookings[b].is_active
        THEN Outcome(Booking_cancel(b), "True", None, "")
        ELSE Outcome(State, "False", None, "")

\* An occupy_table_directly that does not look at the occupied flag.
occupy_table_directly_unchecked(table_id) ==
    LET table == find_table_by_id(table_id)
    IN  IF table # None
        THEN Outcome([State EXCEPT !.tableObjs[table] = Table_occupy(@, None)],
                     "True", None, "")
        ELSE Outcome(State, "False", None, "")

\* An occupy_table_directly that refuses a table with an active booking over
\* the current time.
occupy_table_directly_checks_bookings(table_id) ==
    LET table == find_table_by_id(table_id)
    IN  IF table # None /\ ~is_table_occupied(table, now, now + 1)
        THEN Outcome([State EXCEPT !.tableObjs[table] = Table_occupy(@, None)],
                     "True", None, "")
        ELSE Outcome(State, "False", None, "")

\* Restaurant.occupy_table_directly(table_id)
occupy_table_directly(table_id) ==
    LET table == find_table_by_id(table_id)
    IN  IF table # None /\ ~tableObjs[table].is_occupied
        THEN Outcome([State EXCEPT !.tableObjs[table] = Table_occupy(@, None)],
                     "True", None, "")
        ELSE Outcome(State, "False", None, "")

\* A release_table that does not look at the occupied flag.
release_table_unchecked(table_id) ==
    LET table == find_table_by_id(table_id)
    IN  IF table # None
        THEN Outcome([State EXCEPT !.tableObjs[table] = Table_release(@)],
                     "True", None, "")
        ELSE Outcome(State, "False", None, "")

\* Restaurant.release_table(table_id)
release_table(table_id) ==
    LET table == find_table_by_id(table_id)
    IN  IF table # None /\ tableObjs[table].is_occupied
        THEN Outcome([State EXCEPT !.tableObjs[table] = Table_release(@)],
                     "True", None, "")
        ELSE Outcome(State, "False", None, "")

\* An optional argument is a sequence: <<>> when left out (None), <<v>>
\* when given.  `if x` on an optional number: given and not 0.
truthy(x) == x # <<>> /\ x[1] # 0

\* Restaurant.get_available_tables(seats, start_time, end_time): the
\* addresses of the tables kept, in the order of _tables.  `if seats` is
\* Python's truth test, under which None and the number 0 both count as
\* left out; `if start_time and end_time` holds when both datetimes are
\* given (a datetime is always true).
get_available_tables(seats, start_time, end_time) ==
    LET keep(t) ==
            /\ ~(truthy(seats) /\ tableObjs[t].seats < seats[1])
            /\ ~(/\ start_time # <<>>
                 /\ end_time # <<>>
                 /\ is_table_occupied(t, start_time[1], end_time[1]))
        F[i \in 0 .. Len(tables)] ==
            IF i = 0 THEN <<>>
            ELSE IF keep(tables[i]) THEN Append(F[i - 1], tables[i]) ELSE F[i - 1]
    IN  F[Len(tables)]

\* ---------------------------------------------------------------- actions

\* The callers, and a caller that has not called yet: pc is its position in
\* create_booking, the other fields its arguments and local variables.
Threads == 1 .. NThreads
Idle ==
    [pc |-> "idle", table_id |-> 0, start_time |-> 0, end_time |-> 0,
     table |-> None, booking |-> None, loaded |-> 0]

\* The state before any call: Restaurant.__init__, the clock at 0.
Init ==
    /\ tableObjs = <<>>
    /\ tables = <<>>
    /\ bookings = <<>>
    /\ next_table_id = 1
    /\ next_booking_id = 1
    /\ now = 0
    /\ call = [op |-> "init", args |-> [none |-> None], ret |-> "None",
               obj |-> None, err |-> ""]
    /\ threads = [i \in Threads |-> Idle]
    /\ raced = FALSE

\* One call of a method with outcome o; the clock does not move during it.
Do(op, args, o) ==
    /\ tableObjs' = o.st.tableObjs
    /\ tables' = o.st.tables
    /\ bookings' = o.st.bookings
    /\ next_table_id' = o.st.next_table_id
    /\ next_booking_id' = o.st.next_booking_id
    /\ now' = now
    /\ call' = [op |-> op, args |-> args, ret |-> o.ret, obj |-> o.obj,
                err |-> o.err]
    /\ UNCHANGED <<threads, raced>>

\* Time passes between two calls.
Tick ==
    /\ now < MaxNow
    /\ now' = now + 1
    /\ call' = [op |-> "tick", args |-> [none |-> None], ret |-> "None",
                obj |-> None, err |-> ""]
    /\ UNCHANGED <<tableObjs, tables, bookings, next_table_id, next_booking_id,
                   threads, raced>>

\* The argument values the callers are given to choose from.
Names == {<<>>, <<" ">>, <<" ", "A", " ">>}
Phones == {<<>>, <<"1">>}
SeatValues == {-1, 0, 2, 4}
\* Ids offered: every id handed out so far and the next one (unknown).
TableIds == 1 .. next_table_id
BookingIds == 1 .. next_booking_id

AddTable(max, names, seatValues) ==
    /\ Len(tableObjs) < max
    /\ \E name \in names, seats \in seatValues :
          Do("add_table", [name |-> name, seats |-> seats], add_table(name, seats))

RemoveTable ==
    \E table_id \in TableIds :
        Do("remove_table", [table_id |-> table_id], remove_table(table_id))

\* full: whether the call records all five arguments or the table id only.
CreateBooking(max, full) ==
    /\ Len(bookings) < max
    /\ \E guest_name \in Names, phone \in Phones, table_id \in TableIds,
          start_time \in Times, end_time \in Times :
            Do("create_booking",
               IF full
               THEN [guest_name |-> guest_name, phone |-> phone,
                     table_id |-> table_id, start_time |-> start_time,
                     end_time |-> end_time]
               ELSE [table_id |-> table_id],
               create_booking(guest_name, phone, table_id, start_time, end_time))

CancelBooking ==
    \E booking_id \in BookingIds :
        Do("cancel_booking", [booking_id |-> booking_id], cancel_booking(booking_id))

OccupyTableDirectly ==
    \E table_id \in TableIds :
        Do("occupy_table_directly", [table_id |-> table_id],
           occupy_table_directly(table_id))

ReleaseTable ==
    \E table_id \in TableIds :
        Do("release_table", [table_id |-> table_id], release_table(table_id))

\* Table.occupy(booking) called on a Table object, with any Booking or none.
TableOccupy ==
    \E t \in 1 .. Len(tableObjs), booking \in 0 .. Len(bookings) :
        Do("Table.occupy", [table |-> t, booking |-> booking],
           Outcome([State EXCEPT !.tableObjs[t] = Table_occupy(@, booking)],
                   "None", None, ""))

\* Table.release() called on a Table object.
TableRelease ==
    \E t \in 1 .. Len(tableObjs) :
        Do("Table.release", [table |-> t],
           Outcome([State EXCEPT !.tableObjs[t] = Table_release(@)],
                   "None", None, ""))

\* Booking.cancel() called on a Booking object, active or not.
BookingCancel ==
    \E b \in 1 .. Len(bookings) :
        Do("Booking.cancel", [booking |-> b],
           Outcome(Booking_cancel(b), "None", None, ""))

\* table.name = value
TableSetName ==
    \E t \in 1 .. Len(tableObjs), value \in Names :
        LET r == Table_set_name(tableObjs[t], value)
        IN  Do("Table.name", [table |-> t, value |-> value],
               Outcome([State EXCEPT !.tableObjs[t] = r.obj],
                       IF r.err = "" THEN "None" ELSE "ValueError", None, r.err))

\* table.seats = value
TableSetSeats ==
    \E t \in 1 .. Len(tableObjs), value \in SeatValues :
        LET r == Table_set_seats(tableObjs[t], value)
        IN  Do("Table.seats", [table |-> t, value |-> value],
               Outcome([State EXCEPT !.tableObjs[t] = r.obj],
                       IF r.err = "" THEN "None" ELSE "ValueError", None, r.err))

\* ---------------------------------------------------------------- create_booking, step by step

\* Caller j is inside create_booking.
Busy(j) == threads[j].pc \notin {"idle", "done"}

\* Caller i takes one step and becomes th; the step counts as interleaved
\* when another caller is inside create_booking.
Step(i, th) ==
    /\ threads' = [threads EXCEPT ![i] = th]
    /\ raced' = (raced \/ \E j \in Threads \ {i} : Busy(j))
    /\ UNCHANGED <<tableObjs, tables, next_table_id, now>>

\* Caller i returns from create_booking.
Return(i, ret, obj, err) ==
    call' = [op |-> "create_booking", args |-> [table_id |-> threads[i].table_id],
             ret |-> ret, obj |-> obj, err |-> err]

\* Caller i enters create_booking with a valid guest name and phone.
ThreadCall(i) ==
    /\ threads[i].pc = "idle"
    /\ \E table_id \in TableIds, start_time \in Times, end_time \in Times :
          Step(i, [Idle EXCEPT !.pc = "lookup", !.table_id = table_id,
                               !.start_time = start_time, !.end_time = end_time])
    /\ UNCHANGED <<bookings, next_booking_id, call>>

\* table = self.find_table_by_id(table_id); if not table: return None
ThreadLookup(i) ==
    /\ threads[i].pc = "lookup"
    /\ LET table == find_table_by_id(threads[i].table_id)
       IN  IF table = None
           THEN Step(i, [threads[i] EXCEPT !.pc = "done"])
                    /\ Return(i, "None", None, "")
           ELSE Step(i, [threads[i] EXCEPT !.pc = "scan", !.table = table])
                    /\ UNCHANGED call
    /\ UNCHANGED <<bookings, next_booking_id>>

\* if self._is_table_occupied(table, start_time, end_time): return None
ThreadScan(i) ==
    /\ threads[i].pc = "scan"
    /\ IF is_table_occupied(threads[i].table, threads[i].start_time,
                            threads[i].end_time)
       THEN Step(i, [threads[i] EXCEPT !.pc = "done"])
                /\ Return(i, "None", None, "")
       ELSE Step(i, [threads[i] EXCEPT !.pc = "construct"]) /\ UNCHANGED call
    /\ UNCHANGED <<bookings, next_booking_id>>

\* booking = Booking(self._next_booking_id, ...): the counter is read and
\* the fields are validated.
ThreadConstruct(i) ==
    /\ threads[i].pc = "construct"
    /\ LET made == Booking_init(next_booking_id, <<"A">>, <<"1">>, threads[i].table,
                                threads[i].start_time, threads[i].end_time, now)
       IN  IF made.err # ""
           THEN Step(i, [threads[i] EXCEPT !.pc = "done"])
                    /\ Return(i, "ValueError", None, made.err)
           ELSE Step(i, [threads[i] EXCEPT !.pc = "append", !.booking = made.obj])
                    /\ UNCHANGED call
    /\ UNCHANGED <<bookings, next_booking_id>>

\* self._bookings.append(booking)
ThreadAppend(i) ==
    /\ threads[i].pc = "append"
    /\ bookings' = Append(bookings, threads[i].booking)
    /\ Step(i, [threads[i] EXCEPT !.pc = "load", !.booking = Len(bookings) + 1])
    /\ UNCHANGED <<next_booking_id, call>>

\* self._next_booking_id += 1, the read
ThreadLoad(i) ==
    /\ threads[i].pc = "load"
    /\ Step(i, [threads[i] EXCEPT !.pc = "store", !.loaded = next_booking_id])
    /\ UNCHANGED <<bookings, next_booking_id, call>>

\* self._next_booking_id += 1, the write; return booking
ThreadStore(i) ==
    /\ threads[i].pc = "store"
    /\ next_booking_id' = threads[i].loaded + 1
    /\ Step(i, [threads[i] EXCEPT !.pc = "done"])
    /\ Return(i, "Booking", threads[i].booking, "")
    /\ UNCHANGED bookings

\* ---------------------------------------------------------------- specifications

Next ==
    \/ AddTable(MaxTables, {<<"A">>}, {2})
    \/ RemoveTable
    \/ CreateBooking(MaxBookings, FALSE)
    \/ CancelBooking
    \/ OccupyTableDirectly
    \/ ReleaseTable
    \/ Tick

\* The Restaurant driven through its own operations, one call at a time.
Spec == Init /\ [][Next]_vars

NextCalls ==
    \/ AddTable(MaxTablesC, {<<"A">>}, {2})
    \/ RemoveTable
    \/ CreateBooking(MaxBookingsC, TRUE)
    \/ CancelBooking
    \/ OccupyTableDirectly
    \/ ReleaseTable
    \/ Tick

\* The same with every argument of create_booking on record.
SpecCalls == Init /\ [][NextCalls]_vars

NextTable ==
    \/ AddTable(MaxTablesT, Names, SeatValues)
    \/ RemoveTable
    \/ CreateBooking(MaxBookingsT, FALSE)
    \/ CancelBooking
    \/ OccupyTableDirectly
    \/ ReleaseTable
    \/ TableOccupy
    \/ TableRelease
    \/ BookingCancel
    \/ TableSetName
    \/ TableSetSeats

\* The Restaurant's operations and the methods of the Table and Booking
\* objects it hands out, called in any order.
SpecTable == Init /\ [][NextTable]_vars

NextFloor ==
    \/ AddTable(MaxTablesF, {<<"A">>}, {2})
    \/ RemoveTable
    \/ CreateBooking(MaxBookingsF, FALSE)
    \/ CancelBooking
    \/ OccupyTableDirectly
    \/ ReleaseTable

\* The Restaurant's operations over a longer table collection.
SpecFloor == Init /\ [][NextFloor]_vars

NextThreads ==
    \/ AddTable(MaxTablesC, {<<"A">>}, {2})
    \/ \E i \in Threads :
          \/ ThreadCall(i)
          \/ ThreadLookup(i)
          \/ ThreadScan(i)
          \/ ThreadConstruct(i)
          \/ ThreadAppend(i)
          \/ ThreadLoad(i)
          \/ ThreadStore(i)

\* create_booking called by several callers with no lock: a step of one call
\* may fall between any two steps of another.
SpecThreads == Init /\ [][NextThreads]_vars

\* ---------------------------------------------------------------- claims

\* The words of the specification, stated over the model's state.

\* Addresses of the Booking and Table objects.
BookingRefs == 1 .. Len(bookings)
TableRefs == 1 .. Len(tableObjs)
\* The table at address t is in the Restaurant's table collection.
InCollection(t) == \E i \in 1 .. Len(tables) : tables[i] = t
\* Half-open intervals [s1, e1) and [s2, e2) share an instant.
Overlap(s1, e1, s2, e2) == s1 < e2 /\ s2 < e1
\* Some active booking on table t, other than booking `except`, overlaps [s, e).
ActiveOverlap(t, s, e, except) ==
    \E b \in BookingRefs \ {except} :
        /\ bookings[b].is_active
        /\ bookings[b].table = t
        /\ Overlap(s, e, bookings[b].start_time, bookings[b].end_time)
\* Intervals asked about: the datetimes offered and one step beyond each end.
QueryTimes == -1 .. MaxTime + 1

\* C1: any two distinct active bookings on the same table have disjoint
\* half-open intervals.
C1_NoDoubleBooking ==
    \A b1, b2 \in BookingRefs :
        (/\ b1 # b2
         /\ bookings[b1].table = bookings[b2].table
         /\ bookings[b1].is_active
         /\ bookings[b2].is_active)
        => ~Overlap(bookings[b1].start_time, bookings[b1].end_time,
                    bookings[b2].start_time, bookings[b2].end_time)

\* Two active bookings share a table, one ending when the other starts.
C1_Witness ==
    \E b1, b2 \in BookingRefs :
        /\ bookings[b1].table = bookings[b2].table
        /\ bookings[b1].is_active
        /\ bookings[b2].is_active
        /\ bookings[b1].end_time = bookings[b2].start_time

\* C2: _is_table_occupied(table, s, e) is true exactly when the table's
\* occupied flag is set or an active booking on that table overlaps [s, e)
\* as a half-open interval; cancelled bookings and other tables' bookings
\* never count.
C2_OccupiedIff ==
    \A t \in TableRefs : \A s, e \in QueryTimes :
        is_table_occupied(t, s, e)
            <=> (tableObjs[t].is_occupied \/ ActiveOverlap(t, s, e, None))

\* A free table with one active booking [0, 3): the intervals that touch it
\* do not conflict, the contained, partly overlapping and enclosing ones do,
\* and another table whose only booking, cancelled, covers [1, 2) is not
\* occupied over [1, 2).
C2_Witness ==
    \E b \in BookingRefs :
        LET t == bookings[b].table
        IN  /\ bookings[b].is_active
            /\ bookings[b].start_time = 0 /\ bookings[b].end_time = 3
            /\ ~tableObjs[t].is_occupied
            /\ ~is_table_occupied(t, 3, 4)
            /\ ~is_table_occupied(t, -1, 0)
            /\ is_table_occupied(t, 1, 2)
            /\ is_table_occupied(t, -1, 1)
            /\ is_table_occupied(t, -1, 4)
            /\ \E c \in BookingRefs, u \in TableRefs :
                  /\ u # t
                  /\ bookings[c].table = u
                  /\ ~bookings[c].is_active
                  /\ bookings[c].start_time <= 1 /\ bookings[c].end_time >= 2
                  /\ ~is_table_occupied(u, 1, 2)

\* C4: every booking of the booking collection references a table that is
\* in the table collection.
C4_NoOrphanBooking ==
    \A b \in BookingRefs : InCollection(bookings[b].table)

\* The Restaurant's own fields are as they were before the step.
RestaurantUnchanged ==
    UNCHANGED <<tableObjs, tables, bookings, next_table_id, next_booking_id>>
\* The table collection holds a table with this id.
KnownTableId(table_id) ==
    \E i \in 1 .. Len(tables) : tableObjs[tables[i]].table_id = table_id
\* The address of the table of the collection with this id.
TableWithId(table_id) ==
    CHOOSE t \in TableRefs : InCollection(t) /\ tableObjs[t].table_id = table_id
\* The booking fields pass Booking's validation at the current time.
ValidBookingFields(guest_name, phone, start_time, end_time) ==
    /\ ~is_blank(guest_name)
    /\ ~is_blank(phone)
    /\ start_time >= now
    /\ end_time > start_time

\* C3: create_booking returns None for an unknown table id, else None for
\* a table occupied over the interval, else raises ValueError for invalid
\* fields, else appends one active booking with the next booking id and
\* returns it; a None outcome leaves the bookings and the counter unchanged.
C3_CreateBookingOrder ==
    [][call'.op = "create_booking" =>
        LET a == call'.args
        IN  IF ~KnownTableId(a.table_id)
            THEN call'.ret = "None" /\ RestaurantUnchanged
            ELSE LET t == TableWithId(a.table_id)
                 IN  IF tableObjs[t].is_occupied
                        \/ ActiveOverlap(t, a.start_time, a.end_time, None)
                     THEN call'.ret = "None" /\ RestaurantUnchanged
                     ELSE IF ~ValidBookingFields(a.guest_name, a.phone,
                                                 a.start_time, a.end_time)
                     THEN call'.ret = "ValueError"
                     ELSE /\ call'.ret = "Booking"
                          /\ call'.obj = Len(bookings) + 1
                          /\ bookings' = Append(bookings,
                                [booking_id |-> next_booking_id,
                                 guest_name |-> strip(a.guest_name),
                                 phone |-> strip(a.phone), table |-> t,
                                 start_time |-> a.start_time,
                                 end_time |-> a.end_time, is_active |-> TRUE])
                          /\ next_booking_id' = next_booking_id + 1
    ]_vars

\* A request with an empty guest name and an empty interval for a table
\* that is occupied has returned None.
C3_Witness ==
    /\ call.op = "create_booking"
    /\ call.ret = "None"
    /\ call.args.guest_name = <<>>
    /\ call.args.end_time <= call.args.start_time
    /\ KnownTableId(call.args.table_id)
    /\ tableObjs[TableWithId(call.args.table_id)].is_occupied
    /\ bookings # <<>>

\* C5: add_table raises ValueError for a blank name or seats <= 0 and then
\* appends nothing and keeps the next table id; with valid arguments it
\* appends one free table with the trimmed name and returns it.
C5_AddTableValidates ==
    [][call'.op = "add_table" =>
        LET a == call'.args
        IN  IF is_blank(a.name) \/ a.seats <= 0
            THEN call'.ret = "ValueError" /\ RestaurantUnchanged
            ELSE /\ call'.ret = "Table"
                 /\ Len(tables') = Len(tables) + 1
                 /\ tableObjs'[call'.obj] =
                        [table_id |-> next_table_id, name |-> strip(a.name),
                         seats |-> a.seats, is_occupied |-> FALSE,
                         current_booking |-> None]
    ]_vars

\* C6: both counters start at 1; a successful add_table gives the new
\* table the table counter's value, larger than every table id given
\* before, and advances that counter alone by one; a successful
\* create_booking does the same with the booking counter; no other call,
\* and no failed call, changes either counter.
C6_IdCounters ==
    /\ next_table_id = 1
    /\ next_booking_id = 1
    /\ [][/\ IF call'.op = "add_table" /\ call'.ret = "Table"
             THEN /\ tableObjs'[call'.obj].table_id = next_table_id
                  /\ \A t \in TableRefs : tableObjs[t].table_id < next_table_id
                  /\ next_table_id' = next_table_id + 1
             ELSE next_table_id' = next_table_id
          /\ IF call'.op = "create_booking" /\ call'.ret = "Booking"
             THEN /\ bookings'[call'.obj].booking_id = next_booking_id
                  /\ \A b \in BookingRefs : bookings[b].booking_id < next_booking_id
                  /\ next_booking_id' = next_booking_id + 1
             ELSE next_booking_id' = next_booking_id
       ]_vars

\* After a table was removed and a booking cancelled, the table just added
\* and the second booking carry the id 2.
C6_Witness ==
    /\ call.op = "add_table" /\ call.ret = "Table"
    /\ Len(tableObjs) = 2 /\ Len(tables) = 1
    /\ tableObjs[2].table_id = 2
    /\ Len(bookings) = 2
    /\ ~bookings[1].is_active
    /\ bookings[2].booking_id = 2

\* C7: on every Table object, however occupy and release were called, a
\* current booking implies the occupied flag.
C7_BookingImpliesOccupied ==
    \A t \in TableRefs :
        tableObjs[t].current_booking # None => tableObjs[t].is_occupied

\* Table.occupy(booking) has just linked a booking to a table.
C7_Witness ==
    /\ call.op = "Table.occupy"
    /\ call.args.booking # None
    /\ tableObjs[call.args.table].current_booking = call.args.booking
    /\ tableObjs[call.args.table].is_occupied

\* The sequence seq without the elements that are x, order kept.
Without(seq, x) == SelectSeq(seq, LAMBDA y : y # x)

\* C8: remove_table returns False and leaves the tables, their fields and
\* the bookings as they were when the id is unknown or the table occupied;
\* otherwise it returns True and takes exactly that table out of the
\* collection, the others keeping their order.
C8_RemoveTableFrame ==
    [][call'.op = "remove_table" =>
        LET table_id == call'.args.table_id
        IN  IF ~KnownTableId(table_id)
               \/ tableObjs[TableWithId(table_id)].is_occupied
            THEN call'.ret = "False" /\ RestaurantUnchanged
            ELSE /\ call'.ret = "True"
                 /\ tables' = Without(tables, TableWithId(table_id))
                 /\ Len(tables') = Len(tables) - 1
                 /\ UNCHANGED <<tableObjs, bookings>>
    ]_vars

\* The middle one of three tables has been removed: the first and the
\* third remain, in that order.
C8_Witness ==
    /\ call.op = "remove_table" /\ call.ret = "True"
    /\ Len(tableObjs) = 3
    /\ tables = <<1, 3>>

\* C9: cancel_booking returns False and changes nothing when no booking has
\* the id or the booking is inactive; otherwise it returns True, the
\* booking is inactive and no longer listed by the active-bookings
\* accessor, and every booking keeps its position and its other fields.
C9_CancelBooking ==
    [][call'.op = "cancel_booking" =>
        LET booking_id == call'.args.booking_id
            hits == {b \in BookingRefs : bookings[b].booking_id = booking_id}
        IN  IF hits = {} \/ \A b \in hits : ~bookings[b].is_active
            THEN call'.ret = "False" /\ RestaurantUnchanged
            ELSE /\ call'.ret = "True"
                 /\ \E b \in hits :
                       /\ bookings' = [bookings EXCEPT ![b].is_active = FALSE]
                       /\ \A k \in 1 .. Len(active_bookings') :
                             active_bookings'[k] # b
    ]_vars

\* The second cancel of the same booking has returned False; the booking
\* is still in the collection and not in the active listing.
C9_Witness ==
    /\ call.op = "cancel_booking" /\ call.ret = "False"
    /\ \E b \in BookingRefs :
          /\ bookings[b].booking_id = call.args.booking_id
          /\ ~bookings[b].is_active
          /\ \A k \in 1 .. Len(active_bookings) : active_bookings[k] # b

\* Table t is in the result of get_available_tables over [s, e), no seats
\* asked for.
Available(t, s, e) ==
    LET r == get_available_tables(<<>>, <<s>>, <<e>>)
    IN  \E k \in 1 .. Len(r) : r[k] = t

\* A cancelled booking stays cancelled.
CancelledStays ==
    \A b \in BookingRefs : ~bookings[b].is_active => ~bookings'[b].is_active

\* A cancelled booking does not occupy its table: a table of the collection
\* that is not occupied and has no active booking over the cancelled
\* booking's interval is not occupied over it and is listed as available.
CancelledFrees ==
    \A c \in BookingRefs :
        LET t == bookings[c].table
            s == bookings[c].start_time
            e == bookings[c].end_time
        IN  (/\ ~bookings[c].is_active
             /\ InCollection(t)
             /\ ~tableObjs[t].is_occupied
             /\ ~ActiveOverlap(t, s, e, None))
            => ~is_table_occupied(t, s, e) /\ Available(t, s, e)

\* The call is a create_booking, with a guest name and a phone, for the
\* table and the interval of a cancelled booking, the table being in the
\* collection, not occupied and free of other active bookings over it.
RebooksCancelled(a) ==
    /\ KnownTableId(a.table_id)
    /\ ~is_blank(a.guest_name)
    /\ ~is_blank(a.phone)
    /\ LET t == TableWithId(a.table_id)
       IN  /\ ~tableObjs[t].is_occupied
           /\ ~ActiveOverlap(t, a.start_time, a.end_time, None)
           /\ \E c \in BookingRefs :
                 /\ ~bookings[c].is_active
                 /\ bookings[c].table = t
                 /\ bookings[c].start_time = a.start_time
                 /\ bookings[c].end_time = a.end_time

\* C10 as claimed: a cancelled booking stays cancelled and frees its
\* interval, so that a create_booking for the same table and interval
\* succeeds whenever the table is not occupied and no other active booking
\* overlaps.
C10_RebookAlwaysSucceeds ==
    /\ []CancelledFrees
    /\ [][/\ CancelledStays
          /\ (call'.op = "create_booking" /\ RebooksCancelled(call'.args))
                => call'.ret = "Booking"
       ]_vars

\* C10 as amended: the same, where the create_booking succeeds provided
\* also that the interval's start is not before the current time.
C10_RebookSucceedsIfNotPast ==
    /\ []CancelledFrees
    /\ [][/\ CancelledStays
          /\ (/\ call'.op = "create_booking"
              /\ RebooksCancelled(call'.args)
              /\ call'.args.start_time >= now)
                => call'.ret = "Booking"
       ]_vars

\* A create_booking has succeeded for the table and the interval of a
\* booking cancelled before.
C10_Witness ==
    /\ call.op = "create_booking" /\ call.ret = "Booking"
    /\ \E c \in BookingRefs \ {call.obj} :
          /\ ~bookings[c].is_active
          /\ bookings[c].table = bookings[call.obj].table
          /\ bookings[c].start_time = bookings[call.obj].start_time
          /\ bookings[c].end_time = bookings[call.obj].end_time

\* The table object t, released.
Released(t) ==
    [tableObjs[t] EXCEPT !.is_occupied = FALSE, !.current_booking = None]

\* C11: Booking.cancel() releases the booking's table exactly when the
\* table's current booking is this booking; with another booking or none
\* there, it leaves the table's occupied flag and current booking alone.
C11_CancelReleasesOwnTable ==
    [][call'.op = "Booking.cancel" =>
        LET b == call'.args.booking
            t == bookings[b].table
        IN  /\ ~bookings'[b].is_active
            /\ tableObjs' =
                  IF tableObjs[t].current_booking = b
                  THEN [tableObjs EXCEPT ![t] = Released(t)]
                  ELSE tableObjs
    ]_vars

\* A booking has been cancelled whose table is occupied by a different
\* booking: the table still points at that other booking.
C11_Witness ==
    /\ call.op = "Booking.cancel"
    /\ LET b == call.args.booking
           t == bookings[b].table
       IN  /\ tableObjs[t].is_occupied
           /\ tableObjs[t].current_booking # None
           /\ tableObjs[t].current_booking # b

\* A table of the collection that is occupied is not available over any
\* interval asked about.
OccupiedNeverAvailable ==
    \A t \in TableRefs : \A s, e \in QueryTimes :
        (InCollection(t) /\ tableObjs[t].is_occupied) => ~Available(t, s, e)

\* C12: occupy_table_directly returns False and changes nothing for an
\* unknown id or an occupied table, otherwise returns True and leaves the
\* table occupied with no current booking; a create_booking on an occupied
\* table returns None whatever the interval, and get_available_tables with
\* both times leaves an occupied table out.
C12_WalkInBlocksBooking ==
    /\ []OccupiedNeverAvailable
    /\ [][/\ call'.op = "occupy_table_directly" =>
                LET table_id == call'.args.table_id
                IN  IF ~KnownTableId(table_id)
                       \/ tableObjs[TableWithId(table_id)].is_occupied
                    THEN call'.ret = "False" /\ RestaurantUnchanged
                    ELSE LET t == TableWithId(table_id)
                         IN  /\ call'.ret = "True"
                             /\ tableObjs' = [tableObjs EXCEPT
                                    ![t].is_occupied = TRUE,
                                    ![t].current_booking = None]
                             /\ UNCHANGED <<tables, bookings>>
          /\ (/\ call'.op = "create_booking"
              /\ KnownTableId(call'.args.table_id)
              /\ tableObjs[TableWithId(call'.args.table_id)].is_occupied)
                => call'.ret = "None" /\ RestaurantUnchanged
       ]_vars

\* A create_booking with valid fields, for an interval no booking touches,
\* has returned None because the table is occupied by a walk-in.
C12_Witness ==
    /\ call.op = "create_booking" /\ call.ret = "None"
    /\ KnownTableId(call.args.table_id)
    /\ ValidBookingFields(call.args.guest_name, call.args.phone,
                          call.args.start_time, call.args.end_time)
    /\ LET t == TableWithId(call.args.table_id)
       IN  /\ tableObjs[t].is_occupied
           /\ tableObjs[t].current_booking = None
           /\ ~ActiveOverlap(t, call.args.start_time, call.args.end_time, None)

\* C13: release_table returns False and changes nothing for an unknown id
\* or a table that is not occupied, otherwise returns True with the table
\* released and every booking as it was; Table.release() leaves the table
\* released, and releasing the released table again changes nothing.
C13_ReleaseTable ==
    [][/\ call'.op = "release_table" =>
            LET table_id == call'.args.table_id
            IN  IF ~KnownTableId(table_id)
                   \/ ~tableObjs[TableWithId(table_id)].is_occupied
                THEN call'.ret = "False" /\ RestaurantUnchanged
                ELSE /\ call'.ret = "True"
                     /\ tableObjs' = [tableObjs EXCEPT
                            ![TableWithId(table_id)] = Released(TableWithId(table_id))]
                     /\ UNCHANGED <<tables, bookings>>
       /\ call'.op = "Table.release" =>
            LET t == call'.args.table
            IN  /\ call'.ret = "None"
                /\ tableObjs' = [tableObjs EXCEPT ![t] = Released(t)]
                /\ Table_release(tableObjs'[t]) = tableObjs'[t]
                /\ UNCHANGED <<tables, bookings>>
    ]_vars

\* release_table has released an occupied table that has an active booking;
\* the booking is still active.
C13_Witness ==
    /\ call.op = "release_table" /\ call.ret = "True"
    /\ LET t == TableWithId(call.args.table_id)
       IN  /\ ~tableObjs[t].is_occupied
           /\ tableObjs[t].current_booking = None
           /\ \E b \in BookingRefs : bookings[b].table = t /\ bookings[b].is_active

\* The optional arguments asked with: no seats, 0, 2 or 4 seats; no time or
\* a time asked about.
SeatQueries == {<<>>, <<0>>, <<2>>, <<4>>}
TimeQueries == {<<>>} \cup {<<x>> : x \in QueryTimes}

\* Table t is occupied over [s, e): its flag is set or an active booking
\* on it overlaps.
OccupiedOver(t, s, e) == tableObjs[t].is_occupied \/ ActiveOverlap(t, s, e, None)

\* C14: get_available_tables(seats, start, end) is, in collection order,
\* exactly the tables with (seats left out or table seats >= seats) and
\* (start or end left out or the table not occupied over [start, end)).
C14_AvailableTablesExact ==
    \A seats \in SeatQueries : \A st, en \in TimeQueries :
        get_available_tables(seats, st, en)
            = SelectSeq(tables, LAMBDA t :
                  /\ (seats = <<>> \/ tableObjs[t].seats >= seats[1])
                  /\ (st = <<>> \/ en = <<>> \/ ~OccupiedOver(t, st[1], en[1])))

\* C15: a successful create_booking leaves every table object and the
\* table collection as they were, the booked table not occupied and with
\* no current booking; it appends one booking and advances the booking
\* counter by one, nothing else.
C15_CreateBookingFrame ==
    [][(call'.op = "create_booking" /\ call'.ret = "Booking") =>
        /\ UNCHANGED <<tableObjs, tables, next_table_id>>
        /\ Len(bookings') = Len(bookings) + 1
        /\ SubSeq(bookings', 1, Len(bookings)) = bookings
        /\ next_booking_id' = next_booking_id + 1
        /\ ~tableObjs'[bookings'[call'.obj].table].is_occupied
        /\ tableObjs'[bookings'[call'.obj].table].current_booking = None
    ]_vars

\* A booking has been created on a free table while another table is
\* occupied.
C15_Witness ==
    /\ call.op = "create_booking" /\ call.ret = "Booking"
    /\ ~tableObjs[bookings[call.obj].table].is_occupied
    /\ \E t \in TableRefs : InCollection(t) /\ tableObjs[t].is_occupied

\* The message of the first rule of Booking's validation that the fields
\* break, in the order guest name, phone, start time, end time.
FirstViolation(guest_name, phone, start_time, end_time) ==
    IF is_blank(guest_name) THEN "Guest name cannot be empty"
    ELSE IF is_blank(phone) THEN "Phone cannot be empty"
    ELSE IF start_time < now THEN "Start time cannot be in the past"
    ELSE IF end_time <= start_time THEN "End time must be after start time"
    ELSE ""

\* C16: a create_booking that reaches the construction with fields that
\* break a rule raises ValueError for the first rule broken, in the order
\* guest name, phone, start time not in the past, end after start; every
\* end <= start is refused; a create_booking that raises leaves bookings,
\* counters and tables as they were.
C16_ValidationOrder ==
    [][call'.op = "create_booking" =>
        LET a == call'.args
            first == FirstViolation(a.guest_name, a.phone, a.start_time, a.end_time)
        IN  /\ (/\ KnownTableId(a.table_id)
                /\ ~OccupiedOver(TableWithId(a.table_id), a.start_time, a.end_time)
                /\ first # "")
                  => call'.ret = "ValueError" /\ call'.err = first
            /\ a.end_time <= a.start_time => call'.ret # "Booking"
            /\ call'.ret = "ValueError" => RestaurantUnchanged
    ]_vars

\* A request that breaks all four rules, for a free table, has raised the
\* guest name's error.
C16_Witness ==
    /\ call.op = "create_booking" /\ call.ret = "ValueError"
    /\ call.err = "Guest name cannot be empty"
    /\ is_blank(call.args.guest_name)
    /\ is_blank(call.args.phone)
    /\ call.args.start_time < now
    /\ call.args.end_time <= call.args.start_time
    /\ bookings # <<>>

\* C17: every booking of the collection ends after it starts; a booking
\* just created starts no earlier than the clock's value at that moment;
\* the clock advancing leaves every booking in place and as active as it
\* was.
C17_BookingTimes ==
    /\ [](\A b \in BookingRefs : bookings[b].end_time > bookings[b].start_time)
    /\ [][/\ (call'.op = "create_booking" /\ call'.ret = "Booking")
                => bookings'[call'.obj].start_time >= now
          /\ call'.op = "tick" => bookings' = bookings
       ]_vars

\* The clock has passed the start of a booking, which is still active.
C17_Witness ==
    /\ call.op = "tick"
    /\ \E b \in BookingRefs :
          bookings[b].is_active /\ bookings[b].start_time < now

\* A string that is empty or holds spaces only.
OnlySpaces(value) == \A i \in 1 .. Len(value) : value[i] = " "

\* C18: on a table object, assigning seats <= 0 or a name that is empty or
\* only spaces raises ValueError and leaves name, seats, occupied flag and
\* current booking of the table as they were; a valid value changes the
\* targeted field only, the name being stored without the spaces around it;
\* nothing else of the restaurant changes either way.
C18_TableSetters ==
    [][(call'.op \in {"Table.name", "Table.seats"}) =>
        LET t == call'.args.table
            value == call'.args.value
            invalid == IF call'.op = "Table.seats" THEN value <= 0
                       ELSE OnlySpaces(value)
        IN  /\ UNCHANGED <<tables, bookings, next_table_id, next_booking_id>>
            /\ IF invalid
               THEN call'.ret = "ValueError" /\ tableObjs' = tableObjs
               ELSE /\ call'.ret = "None"
                    /\ tableObjs' =
                         IF call'.op = "Table.seats"
                         THEN [tableObjs EXCEPT ![t].seats = value]
                         ELSE [tableObjs EXCEPT ![t].name = strip(value)]
                    /\ call'.op = "Table.name" =>
                         /\ tableObjs'[t].name # <<>>
                         /\ tableObjs'[t].name[1] # " "
                         /\ tableObjs'[t].name[Len(tableObjs'[t].name)] # " "
    ]_vars

\* seats = 0 has been refused on an occupied table that holds a booking and
\* whose seats are positive.
C18_Witness ==
    /\ call.op = "Table.seats" /\ call.ret = "ValueError"
    /\ call.args.value = 0
    /\ tableObjs[call.args.table].is_occupied
    /\ tableObjs[call.args.table].current_booking # None
    /\ tableObjs[call.args.table].seats > 0

\* C19: remove_table and occupy_table_directly return True exactly when the
\* id is of a table of the collection whose occupied flag is false, whatever
\* bookings the table has; then remove_table takes the table out and
\* occupy_table_directly marks it occupied with no booking; neither changes
\* a booking, so an active booking of the table stays active.
C19_BookingsIgnored ==
    [][(call'.op \in {"remove_table", "occupy_table_directly"}) =>
        LET table_id == call'.args.table_id
            free == KnownTableId(table_id)
                        /\ ~tableObjs[TableWithId(table_id)].is_occupied
        IN  /\ call'.ret = (IF free THEN "True" ELSE "False")
            /\ bookings' = bookings
            /\ (free /\ call'.op = "remove_table") =>
                  \A i \in 1 .. Len(tables') : tables'[i] # TableWithId(table_id)
            /\ (free /\ call'.op = "occupy_table_directly") =>
                  /\ tables' = tables
                  /\ tableObjs'[TableWithId(table_id)].is_occupied
                  /\ tableObjs'[TableWithId(table_id)].current_booking = None
    ]_vars

\* A table with an active booking over the current time has been removed,
\* and another table with an active booking over the current time is
\* occupied by a walk-in.
C19_Witness ==
    /\ call.op = "remove_table" /\ call.ret = "True"
    /\ \E b1, b2 \in BookingRefs :
          /\ bookings[b1].is_active /\ bookings[b2].is_active
          /\ bookings[b1].start_time <= now /\ now < bookings[b1].end_time
          /\ bookings[b2].start_time <= now /\ now < bookings[b2].end_time
          /\ ~InCollection(bookings[b1].table)
          /\ InCollection(bookings[b2].table)
          /\ tableObjs[bookings[b2].table].is_occupied
          /\ tableObjs[bookings[b2].table].current_booking = None

\* Two active bookings of one table overlap.
DoubleBooked ==
    \E b1, b2 \in BookingRefs :
        /\ b1 # b2
        /\ bookings[b1].is_active /\ bookings[b2].is_active
        /\ bookings[b1].table = bookings[b2].table
        /\ Overlap(bookings[b1].start_time, bookings[b1].end_time,
                   bookings[b2].start_time, bookings[b2].end_time)
\* Two bookings carry the same id.
DuplicateBookingId ==
    \E b1, b2 \in BookingRefs :
        b1 # b2 /\ bookings[b1].booking_id = bookings[b2].booking_id

\* C20: with create_booking run step by step by several callers, two
\* overlapping active bookings on a table or a booking id given twice
\* arise only when a step of one call fell inside another call; calls that
\* each run from entry to return with no other call in progress produce
\* neither.
C20_UnsafeOnlyWhenInterleaved ==
    (DoubleBooked \/ DuplicateBookingId) => raced

\* Both callers have returned a Booking for the same table; the two
\* bookings overlap and carry the same id.
C20_Witness ==
    /\ \A i \in Threads : threads[i].pc = "done" /\ threads[i].booking # None
    /\ DoubleBooked
    /\ DuplicateBookingId

\* C21: under the Restaurant's own operations no table ever holds a current
\* booking, so cancel_booking changes no table: a table occupied by a
\* walk-in stays occupied when a booking on it is cancelled.
C21_NoCurrentBooking ==
    /\ [](\A t \in TableRefs : tableObjs[t].current_booking = None)
    /\ [][call'.op = "cancel_booking" => tableObjs' = tableObjs]_vars

\* A booking has been cancelled whose table is occupied by a walk-in, and
\* the table is still occupied.
C21_Witness ==
    /\ call.op = "cancel_booking" /\ call.ret = "True"
    /\ \E b \in BookingRefs :
          /\ bookings[b].booking_id = call.args.booking_id
          /\ ~bookings[b].is_active
          /\ InCollection(bookings[b].table)
          /\ tableObjs[bookings[b].table].is_occupied

\* C22: the booking collection only grows at its end: no call removes or
\* reorders a booking or changes a booking's id, table, guest or times; its
\* length is next_booking_id - 1 and the booking at position i has id i;
\* the active-bookings accessor lists exactly the active bookings, by
\* strictly increasing id.  The ids of the table collection are strictly
\* increasing in collection order (so pairwise distinct) and all below
\* next_table_id.
C22_AppendOnly ==
    /\ [](/\ Len(bookings) = next_booking_id - 1
          /\ \A i \in BookingRefs : bookings[i].booking_id = i
          /\ \A k \in 1 .. Len(active_bookings) :
                /\ bookings[active_bookings[k]].is_active
                /\ k > 1 => bookings[active_bookings[k - 1]].booking_id
                               < bookings[active_bookings[k]].booking_id
          /\ \A b \in BookingRefs : bookings[b].is_active =>
                \E k \in 1 .. Len(active_bookings) : active_bookings[k] = b
          /\ \A i, j \in 1 .. Len(tables) : i < j =>
                tableObjs[tables[i]].table_id < tableObjs[tables[j]].table_id
          /\ \A i \in 1 .. Len(tables) :
                tableObjs[tables[i]].table_id < next_table_id)
    /\ [][/\ Len(bookings') >= Len(bookings)
          /\ \A i \in BookingRefs :
                [bookings'[i] EXCEPT !.is_active = TRUE]
                    = [bookings[i] EXCEPT !.is_active = TRUE]
       ]_vars

\* Of two bookings the first is cancelled and the second listed as the only
\* active one; of two tables built the first is removed and the second
\* remains, with id 2.
C22_Witness ==
    /\ Len(bookings) = 2
    /\ ~bookings[1].is_active
    /\ active_bookings = <<2>>
    /\ Len(tableObjs) = 2
    /\ tables = <<2>>
    /\ tableObjs[2].table_id = 2

\* The id of a table that was removed from the collection.
RemovedId(table_id) ==
    \E t \in TableRefs : ~InCollection(t) /\ tableObjs[t].table_id = table_id
\* Active bookings of tables that are no longer in the collection.
StrandedBookings ==
    {b \in BookingRefs : bookings[b].is_active /\ ~InCollection(bookings[b].table)}

\* The booking fields of a caller with a guest name and a phone: the
\* outcome of create_booking for table id and [s, e) in the current state.
Books(table_id, s, e) ==
    create_booking(<<"A">>, <<"1">>, table_id, s, e).ret = "Booking"

\* The active bookings of removed tables stay listed.
StrandedListed ==
    \A b \in StrandedBookings :
        \E k \in 1 .. Len(active_bookings) : active_bookings[k] = b

\* What the calls do with removed tables and their bookings: a successful
\* remove_table leaves every booking and the active listing as they were;
\* create_booking, remove_table, occupy_table_directly and release_table
\* given a removed id return None/False and change nothing; cancel_booking
\* on an active booking of a removed table returns True and deactivates
\* it; a table added gets an id no table had before.
RemovedTableCalls ==
    /\ (call'.op = "remove_table" /\ call'.ret = "True") =>
          bookings' = bookings /\ active_bookings' = active_bookings
    /\ (/\ call'.op \in {"create_booking", "remove_table",
                         "occupy_table_directly", "release_table"}
        /\ RemovedId(call'.args.table_id)) =>
          call'.ret \in {"None", "False"} /\ RestaurantUnchanged
    /\ call'.op = "cancel_booking" =>
          \A b \in StrandedBookings :
              bookings[b].booking_id = call'.args.booking_id =>
                  call'.ret = "True" /\ ~bookings'[b].is_active
    /\ (call'.op = "add_table" /\ call'.ret = "Table") =>
          \A t \in TableRefs :
              tableObjs'[call'.obj].table_id # tableObjs[t].table_id

\* C23 as claimed: the bookings of a removed table stay active and listed
\* and can be cancelled, its id is unknown to every operation, and once a
\* table has been added afterwards a create_booking on it over the interval
\* of such a booking succeeds.
C23_NewTableAlwaysBookable ==
    /\ [](/\ StrandedListed
          /\ (call.op = "add_table" /\ call.ret = "Table") =>
                \A b \in StrandedBookings :
                    Books(tableObjs[call.obj].table_id,
                          bookings[b].start_time, bookings[b].end_time))
    /\ [][RemovedTableCalls]_vars

\* C23 as amended: the same, where the create_booking on the table added
\* afterwards succeeds provided the interval's start is not before the
\* current time; more generally every table of the collection that is not
\* occupied and has no overlapping active booking of its own can be booked
\* for every interval that starts no earlier than the current time and ends
\* after it starts, whatever the removed tables' bookings cover.
C23_RemovedTableBookings ==
    /\ [](/\ StrandedListed
          /\ (call.op = "add_table" /\ call.ret = "Table") =>
                \A b \in StrandedBookings :
                    bookings[b].start_time >= now =>
                        Books(tableObjs[call.obj].table_id,
                              bookings[b].start_time, bookings[b].end_time)
          /\ \A t \in TableRefs : \A s, e \in Times :
                (/\ InCollection(t)
                 /\ ~OccupiedOver(t, s, e)
                 /\ s >= now /\ e > s)
                  => Books(tableObjs[t].table_id, s, e))
    /\ [][RemovedTableCalls]_vars

\* A booking has been created on a table of the collection over the very
\* interval of an active booking of a removed table, which is still listed.
C23_Witness ==
    /\ call.op = "create_booking" /\ call.ret = "Booking"
    /\ InCollection(bookings[call.obj].table)
    /\ \E b \in StrandedBookings :
          /\ bookings[b].start_time = bookings[call.obj].start_time
          /\ bookings[b].end_time = bookings[call.obj].end_time
          /\ bookings[b].booking_id < bookings[call.obj].booking_id
          /\ tableObjs[bookings[b].table].table_id
                < tableObjs[bookings[call.obj].table].table_id
          /\ \E k \in 1 .. Len(active_bookings) : active_bookings[k] = b
====
